---- MODULE Spec2Model ----
(***************************************************************************)
(* Two-layer proof system for the equality claim a == b.                   *)
(*                                                                         *)
(* Layer 1 (STARK): diem-prover-plonk/host/src/eq_air.rs,                  *)
(*                  diem-prover-stwo/host/src/eq_air.rs,                   *)
(*                  diem-prover-plonky3/host/src/verifier/native_stark.rs  *)
(* Layer 2 (SNARK): diem-prover-plonk/host/src/verifier/snark_wrapper.rs   *)
(*                                                                         *)
(* Representation.  A u32 is its four little-endian bytes and a usize its  *)
(* eight little-endian bytes, so every value of the type is representable  *)
(* and a single byte of a field can be changed.  The external proof        *)
(* libraries (p3-uni-stark, stwo, ark-groth16) are modelled as ideal       *)
(* objects: a digest is a byte-valued function that changes whenever one   *)
(* input byte changes, a STARK proof is a fixed-layout byte string whose   *)
(* parts are checked against each other, a Groth16 proof verifies exactly  *)
(* when it was made under the matching key for the topology the key was    *)
(* generated for, from a satisfied circuit, with the same public inputs.   *)
(***************************************************************************)
EXTENDS Integers, Sequences, FiniteSets, TLC

VARIABLES
    proof,      \* the NativeStarkProof / EqualityProof in hand, or NoProof
    stwoProof,  \* the stwo EqualityProof in hand, or NoProof
    keys,       \* sequence of SnarkWrapper instances, one per setup run
    wrapped,    \* the WrappedProof in hand, or NoProof
    rng,        \* number of draws taken from the randomness source so far
    last        \* the last call: its name, arguments, outcome and steps

vars == <<proof, stwoProof, keys, wrapped, rng, last>>

NoProof == [tag |-> "None"]

(***************************************************************************)
(* Results of fallible calls: Ok(v), Err(message, cause) as built by       *)
(* anyhow::bail! / map_err, and a panic (expect / assert! / indexing).     *)
(***************************************************************************)
Ok(v) == [tag |-> "Ok", val |-> v]

Err(m, c) == [tag |-> "Err", msg |-> m, cause |-> c]

Panic(m) == [tag |-> "Panic", msg |-> m]

(***************************************************************************)
(* Machine integers.                                                       *)
(***************************************************************************)
Byte == 0..255

\* u32 from a number below 2^31, as little-endian bytes
U32(n) ==
    << n % 256, (n \div 256) % 256, (n \div 65536) % 256, (n \div 16777216) % 256 >>

\* usize (64 bit) from a number below 2^31, as little-endian bytes
USize(n) == U32(n) \o << 0, 0, 0, 0 >>

\* the number a u32 holds, when it is below 2^31
Value(v) == v[1] + 256 * v[2] + 65536 * v[3] + 16777216 * v[4]

U32_2P31 == << 0, 0, 0, 128 >>        \* 2^31

U32_MAX == << 255, 255, 255, 255 >>   \* 2^32 - 1

RECURSIVE XorBits(_, _, _)
XorBits(x, y, n) ==
    IF n = 0 THEN 0
    ELSE (((x % 2) + (y % 2)) % 2) + 2 * XorBits(x \div 2, y \div 2, n - 1)

\* x ^ m on one byte
Xor(x, m) == XorBits(x, m, 8)

(***************************************************************************)
(* Ideal digest (Keccak / Blake2s / SHA-256 stand-in): one byte, changed   *)
(* by every change of a single input byte.                                 *)
(***************************************************************************)
\* a permutation of the bytes: multiplication by three in the integers
\* modulo 257, shifted to 0..255
SBox(x) == (((x + 1) * 3) % 257) - 1

Mix(h, x) == SBox((h + x + 7) % 256)

RECURSIVE Fold(_, _)
Fold(h, s) == IF s = << >> THEN h ELSE Fold(Mix(h, Head(s)), Tail(s))

\* short strings are folded; longer ones are digested by halves
RECURSIVE Digest(_)
Digest(s) ==
    IF Len(s) <= 8 THEN Fold(Len(s), s)
    ELSE LET h == Len(s) \div 2
         IN  Mix(Digest(SubSeq(s, 1, h)), Digest(SubSeq(s, h + 1, Len(s))))

(***************************************************************************)
(* Mersenne-31 field.                                                      *)
(***************************************************************************)
M31_P == 2147483647

\* Mersenne31::new_checked: Some iff the value fits in 31 bits
new_checked(v) ==
    IF v[4] < 128 THEN [some |-> TRUE, val |-> Value(v)]
    ELSE [some |-> FALSE, val |-> 0]

Canonical(x) == x % M31_P

(***************************************************************************)
(* EqualityAir: width 2, one constraint local[0] - local[1] == 0.          *)
(***************************************************************************)
AirWidth == 2

\* a constraint that adds the two columns instead of subtracting them
AirEval_Sum(local) == (Canonical(local[1]) + Canonical(local[2])) % M31_P

AirEval(local) ==
    IF Canonical(local[1]) >= Canonical(local[2])
    THEN Canonical(local[1]) - Canonical(local[2])
    ELSE M31_P - (Canonical(local[2]) - Canonical(local[1]))

(***************************************************************************)
(* generate_trace (plonk): num_rows rows of (a, b), row major.             *)
(***************************************************************************)
\* a generator that fills all rows but the last, which stays at zero
generate_trace_LastRowDefault(num_rows, a_val, b_val) ==
    LET a == new_checked(a_val)
        b == new_checked(b_val)
    IN  IF ~a.some \/ ~b.some
        THEN Panic("Value must fit in Mersenne31 field")
        ELSE Ok([width |-> 2,
                 values |-> [i \in 1..(num_rows * 2) |->
                               IF i > (num_rows - 1) * 2 THEN 0
                               ELSE IF i % 2 = 1 THEN a.val ELSE b.val]])

generate_trace(num_rows, a_val, b_val) ==
    LET a == new_checked(a_val)
        b == new_checked(b_val)
    IN  IF ~a.some \/ ~b.some
        THEN Panic("Value must fit in Mersenne31 field")
        ELSE Ok([width |-> 2,
                 values |-> [i \in 1..(num_rows * 2) |->
                                IF i % 2 = 1 THEN a.val ELSE b.val]])

TraceHeight(t) == Len(t.values) \div t.width

TraceRow(t, r) == << t.values[(r - 1) * t.width + 1], t.values[(r - 1) * t.width + 2] >>

(***************************************************************************)
(* STARK configuration: the FriParameters literal of prover and verifier.  *)
(***************************************************************************)
NUM_ROWS == 32

ProverConfig ==
    [log_blowup |-> 1, num_queries |-> 100, proof_of_work_bits |-> 16,
     log_final_poly_len |-> 1]

\* a verifier whose FRI parameters were edited without the prover's
VerifierConfig_FewerQueries ==
    [log_blowup |-> 1, num_queries |-> 50, proof_of_work_bits |-> 16,
     log_final_poly_len |-> 1]

VerifierConfig ==
    [log_blowup |-> 1, num_queries |-> 100, proof_of_work_bits |-> 16,
     log_final_poly_len |-> 1]

ConfigBytes(c) ==
    << c.log_blowup, c.num_queries, c.proof_of_work_bits, c.log_final_poly_len >>

RECURSIVE Log2(_)
Log2(n) == IF n <= 1 THEN 0 ELSE 1 + Log2(n \div 2)

(***************************************************************************)
(* p3_uni_stark::prove / verify, ideal.                                    *)
(*   degree_bits   log2 of the trace height                                *)
(*   trace_commit  digest of the trace (Merkle root)                       *)
(*   local         the trace row opened at the challenge point; for the    *)
(*                 constant columns of this trace, the column values       *)
(*   quotient      opened quotient value; 0 for a satisfied constraint     *)
(*   opening       authenticates local and quotient against the commitment *)
(*                 at the challenge derived from the transcript            *)
(*   final_poly    the low-degree test's final polynomial                  *)
(***************************************************************************)
Challenge(transcript) == Digest(transcript)

OpenTag(config, p) ==
    LET zeta == Challenge(<< p.degree_bits, p.trace_commit >>)
    IN  Digest(<< zeta, p.quotient >> \o U32(p.local[1]) \o U32(p.local[2])
               \o << config.num_queries >>)

FriTag(config, p) ==
    Digest(ConfigBytes(config) \o << p.degree_bits, p.trace_commit, p.quotient >>
           \o U32(p.local[1]) \o U32(p.local[2]))

\* Merkle-style: a digest of the row digests
\* the root of a Merkle tree over leaf digests
RECURSIVE MerkleRoot(_)
MerkleRoot(leaves) ==
    IF Len(leaves) = 0 THEN Digest(<< >>)
    ELSE IF Len(leaves) = 1 THEN leaves[1]
    ELSE LET h == Len(leaves) \div 2
         IN  Digest(<< MerkleRoot(SubSeq(leaves, 1, h)),
                       MerkleRoot(SubSeq(leaves, h + 1, Len(leaves))) >>)

TraceCommit(config, t) ==
    Digest(<< config.log_blowup,
              MerkleRoot([r \in 1..TraceHeight(t) |->
                 Digest(U32(TraceRow(t, r)[1]) \o U32(TraceRow(t, r)[2]))]) >>)

SatisfiesAir(t) == \A r \in 1..TraceHeight(t) : AirEval(TraceRow(t, r)) = 0

StarkProveSteps ==
    << "commit_trace", "observe_commitment", "sample_challenge",
       "commit_quotient", "open", "fri" >>

StarkProve(config, air, t) ==
    LET row == TraceRow(t, 1)
        base == [degree_bits |-> Log2(TraceHeight(t)),
                 trace_commit |-> TraceCommit(config, t),
                 local |-> << Canonical(row[1]), Canonical(row[2]) >>,
                 quotient |-> 0,
                 opening |-> 0,
                 final_poly |-> 0]
        opened == [base EXCEPT !.opening = OpenTag(config, base)]
    IN  \* a trace that violates the AIR has no low-degree quotient
        [opened EXCEPT !.final_poly =
            IF SatisfiesAir(t) THEN FriTag(config, opened)
            ELSE Mix(FriTag(config, opened), 1)]

StarkVerify(config, air, p) ==
    IF Len(p.local) # AirWidth THEN "InvalidProofShape"
    ELSE IF p.opening # OpenTag(config, p) THEN "InvalidOpeningArgument(InputError)"
    ELSE IF p.final_poly # FriTag(config, p) THEN "InvalidOpeningArgument(FinalPolyMismatch)"
    ELSE IF AirEval(p.local) # 0 \/ p.quotient # 0 THEN "OodEvaluationMismatch"
    ELSE "Ok"

(***************************************************************************)
(* bincode layout of the STARK proof.                                      *)
(***************************************************************************)
ProofLen == 13

Serialize(p) ==
    << p.degree_bits, p.trace_commit >> \o U32(p.local[1]) \o U32(p.local[2])
    \o << p.quotient, p.opening, p.final_poly >>

\* bincode::deserialize: fails on short input and on a field element that
\* is out of range; bytes after the value are not read
Deserialize(bytes) ==
    IF Len(bytes) < ProofLen THEN [ok |-> FALSE, err |-> "UnexpectedEof"]
    ELSE IF bytes[6] >= 128 \/ bytes[10] >= 128
         THEN [ok |-> FALSE, err |-> "Value is out of range"]
    ELSE [ok |-> TRUE,
          val |-> [degree_bits |-> bytes[1],
                   trace_commit |-> bytes[2],
                   local |-> << Value(SubSeq(bytes, 3, 6)), Value(SubSeq(bytes, 7, 10)) >>,
                   quotient |-> bytes[11],
                   opening |-> bytes[12],
                   final_poly |-> bytes[13]]]

(***************************************************************************)
(* prove_equality / verify_equality (plonk).  Each returns its outcome     *)
(* and the steps it performed, in order.                                   *)
(***************************************************************************)
\* the equality check placed after trace construction
prove_equality_LateCheck(a, b) ==
    LET t == generate_trace(NUM_ROWS, a, b)
    IN  IF t.tag = "Panic"
        THEN [outcome |-> t, steps |-> << "new_challenger", "generate_trace" >>]
        ELSE [outcome |-> Err("Cannot prove equality", "a != b"),
              steps |-> << "new_challenger", "generate_trace", "check_equal" >>]

prove_equality(a, b) ==
    IF a # b
    THEN [outcome |-> Err("Cannot prove equality", "a != b"),
          steps |-> << "check_equal" >>]
    ELSE LET t == generate_trace(NUM_ROWS, a, b)
         IN  IF t.tag = "Panic"
             THEN [outcome |-> t,
                   steps |-> << "check_equal", "new_challenger", "generate_trace" >>]
             ELSE [outcome |-> Ok([proof_bytes |->
                                      Serialize(StarkProve(ProverConfig,
                                                           [num_rows |-> NUM_ROWS], t.val)),
                                   a |-> a, b |-> b]),
                   steps |-> << "check_equal", "new_challenger", "generate_trace" >>
                             \o StarkProveSteps \o << "serialize" >>]

\* the library error dropped from the message
verify_equality_GenericError(pr) ==
    IF pr.a # pr.b THEN Err("Proof values are not equal", "a != b")
    ELSE LET d == Deserialize(pr.proof_bytes)
         IN  IF ~d.ok THEN Err("Failed to deserialize proof", "")
             ELSE IF StarkVerify(VerifierConfig, [num_rows |-> NUM_ROWS], d.val) # "Ok"
                  THEN Err("Verification failed", "")
                  ELSE Ok(TRUE)

verify_equality(pr) ==
    IF pr.a # pr.b THEN Err("Proof values are not equal", "a != b")
    ELSE LET d == Deserialize(pr.proof_bytes)
         IN  IF ~d.ok THEN Err("Failed to deserialize proof", d.err)
             ELSE LET v == StarkVerify(VerifierConfig, [num_rows |-> NUM_ROWS], d.val)
                  IN  IF v # "Ok" THEN Err("Verification failed", v)
                      ELSE Ok(TRUE)

(***************************************************************************)
(* NativeStarkVerifier (plonky3 native_stark.rs).                          *)
(***************************************************************************)
DEFAULT_NUM_ROWS == 32

NativeStarkVerifier_new(num_rows) ==
    [config |-> [log_blowup |-> 1, num_queries |-> 100, proof_of_work_bits |-> 16,
                 log_final_poly_len |-> 1],
     num_rows |-> num_rows]

NativeStarkVerifier_default == NativeStarkVerifier_new(USize(DEFAULT_NUM_ROWS))

NativeStarkVerifier_verify(self, pr) ==
    IF pr.a # pr.b
    THEN [outcome |-> Err("Proof values are not equal", "a != b"),
          steps |-> << "check_equal" >>]
    ELSE IF pr.num_rows # self.num_rows
    THEN [outcome |-> Err("Proof trace size mismatch", "num_rows"),
          steps |-> << "check_equal", "check_num_rows" >>]
    ELSE IF ~new_checked(pr.a).some \/ ~new_checked(pr.b).some
    THEN [outcome |-> Panic("Value must fit in field"),
          steps |-> << "check_equal", "check_num_rows", "new_checked" >>]
    ELSE LET d == Deserialize(pr.proof_bytes)
             pre == << "check_equal", "check_num_rows", "new_checked", "deserialize" >>
         IN  IF ~d.ok
             THEN [outcome |-> Err("Failed to deserialize STARK proof", d.err),
                   steps |-> pre]
             ELSE LET v == StarkVerify(self.config,
                                          [num_rows |-> pr.num_rows,
                                           expected_a |-> new_checked(pr.a).val,
                                           expected_b |-> new_checked(pr.b).val],
                                          d.val)
                  IN  [outcome |-> IF v # "Ok" THEN Err("STARK verification failed", v)
                                   ELSE Ok("unit"),
                       steps |-> pre \o << "stark_verify" >>]

\* a method() that reads the verifier's configuration
NativeStarkVerifier_method_ByRows(self) ==
    IF self.num_rows = USize(DEFAULT_NUM_ROWS) THEN "NativeStark" ELSE "StarkInSnark"

NativeStarkVerifier_method(self) == "NativeStark"

VerificationResult_new(valid, method) ==
    [valid |-> valid, method |-> method, metadata |-> "None"]

with_metadata(r, m) == [r EXCEPT !.metadata = m]

NativeStarkVerifier_verify_with_result(self, pr) ==
    LET r == NativeStarkVerifier_verify(self, pr)
    IN  IF r.outcome.tag # "Ok" THEN r
        ELSE [outcome |-> Ok(with_metadata(VerificationResult_new(TRUE, "NativeStark"),
                                           "Verified STARK proof")),
              steps |-> r.steps]

(***************************************************************************)
(* Inputs.                                                                 *)
(***************************************************************************)
\* claim values: small ones (the hash of the proof for 15 starts with a
\* zero word), the field order 2^31 - 1, and values that do not fit in 31
\* bits
ClaimValues ==
    { U32(0), U32(15), U32(42), U32(99), U32(M31_P), U32_2P31, U32_MAX }

\* masks a tampering caller xors into one byte
FlipMasks == { 1, 128, 255 }

\* trace heights a verifier is constructed for
VerifierRows == { DEFAULT_NUM_ROWS, 16 }

\* what a dishonest prover can do with a trace whose columns differ:
\*   honest_quotient  run the protocol as is: the quotient is not low degree
\*   zero_quotient    commit to a low-degree quotient the constraint does not match
\*   bad_opening      as zero_quotient, with an opening that does not authenticate
ForgeKinds == { "honest_quotient", "zero_quotient", "bad_opening" }

Some(obj, origin) == [tag |-> "Some", obj |-> obj, origin |-> origin]

EqualityProofOf(pr) == [proof_bytes |-> pr.proof_bytes, a |-> pr.a, b |-> pr.b]

\* the caller's conversion of an EqualityProof into a NativeStarkProof
ToNative(ep) ==
    [proof_bytes |-> ep.proof_bytes, a |-> ep.a, b |-> ep.b, num_rows |-> USize(NUM_ROWS)]

FlipAt(s, i, m) == [s EXCEPT ![i] = Xor(s[i], m)]

\* a proof built outside prove_equality from a trace with a # b
ForgedBytes(a, b, kind) ==
    LET t == generate_trace(NUM_ROWS, a, b).val
        p == StarkProve(ProverConfig, [num_rows |-> NUM_ROWS], t)
    IN  IF kind = "honest_quotient" THEN Serialize(p)
        ELSE IF kind = "zero_quotient"
        THEN Serialize([p EXCEPT !.final_poly = FriTag(ProverConfig, p)])
        ELSE Serialize([p EXCEPT !.final_poly = FriTag(ProverConfig, p),
                                 !.opening = Mix(p.opening, 1)])

Init ==
    /\ proof = NoProof
    /\ stwoProof = NoProof
    /\ keys = << >>
    /\ wrapped = NoProof
    /\ rng = 0
    /\ last = [op |-> "none"]

(***************************************************************************)
(* Layer-1 calls (plonk / plonky3).                                        *)
(***************************************************************************)
ProveEquality ==
    /\ proof = NoProof
    /\ \E a \in ClaimValues, b \in ClaimValues :
        LET r == prove_equality(a, b)
        IN  /\ last' = [op |-> "prove_equality", a |-> a, b |-> b,
                        outcome |-> r.outcome, steps |-> r.steps]
            /\ proof' = IF r.outcome.tag = "Ok"
                        THEN Some(ToNative(r.outcome.val), "honest")
                        ELSE proof
            /\ UNCHANGED <<stwoProof, keys, wrapped, rng>>

\* one byte of the proof's representation is changed
FlipByte ==
    /\ proof.tag = "Some"
    /\ proof.origin = "honest"
    /\ \E f \in {"a", "b", "num_rows", "proof_bytes"}, m \in FlipMasks :
         \E i \in 1..Len(proof.obj[f]) :
            /\ proof' = Some([proof.obj EXCEPT ![f] = FlipAt(proof.obj[f], i, m)], "flipped")
            /\ last' = [op |-> "flip", field |-> f, index |-> i, mask |-> m,
                        before |-> proof.obj]
    /\ UNCHANGED <<stwoProof, keys, wrapped, rng>>

\* the claim values are replaced by those of another claim, proof bytes kept
SubstituteClaim ==
    /\ proof.tag = "Some"
    /\ proof.origin = "honest"
    /\ \E v \in ClaimValues :
         /\ v # proof.obj.a
         /\ proof' = Some([proof.obj EXCEPT !.a = v, !.b = v], "substituted")
         /\ last' = [op |-> "substitute", before |-> proof.obj]
    /\ UNCHANGED <<stwoProof, keys, wrapped, rng>>

\* a proof that did not come from prove_equality is presented
Forge ==
    /\ proof = NoProof
    /\ \E a \in {U32(42)}, b \in {U32(43), U32(99)}, k \in ForgeKinds,
          claimed \in {U32(42)} :
         /\ proof' = Some(ToNative([proof_bytes |-> ForgedBytes(a, b, k),
                                    a |-> claimed, b |-> claimed]), k)
         /\ last' = [op |-> "forge", kind |-> k]
    /\ UNCHANGED <<stwoProof, keys, wrapped, rng>>

\* a NativeStarkProof with a declared trace height other than the prover's
Redeclare ==
    /\ proof.tag = "Some"
    /\ proof.origin = "honest"
    /\ \E n \in VerifierRows \ {NUM_ROWS} :
         /\ proof' = Some([proof.obj EXCEPT !.num_rows = USize(n)], "redeclared")
         /\ last' = [op |-> "redeclare", before |-> proof.obj]
    /\ UNCHANGED <<stwoProof, keys, wrapped, rng>>

VerifyEquality ==
    /\ proof.tag = "Some"
    /\ last' = [op |-> "verify_equality",
                outcome |-> verify_equality(EqualityProofOf(proof.obj))]
    /\ UNCHANGED <<proof, stwoProof, keys, wrapped, rng>>

NativeVerify ==
    /\ proof.tag = "Some"
    /\ \E n \in VerifierRows :
         LET self == NativeStarkVerifier_new(USize(n))
             r == NativeStarkVerifier_verify(self, proof.obj)
         IN  last' = [op |-> "native_verify", self |-> self,
                      outcome |-> r.outcome, steps |-> r.steps]
    /\ UNCHANGED <<proof, stwoProof, keys, wrapped, rng>>

NativeVerifyWithResult ==
    /\ proof.tag = "Some"
    /\ \E n \in VerifierRows :
         LET self == NativeStarkVerifier_new(USize(n))
             r == NativeStarkVerifier_verify_with_result(self, proof.obj)
         IN  last' = [op |-> "native_verify_with_result", self |-> self,
                      outcome |-> r.outcome, steps |-> r.steps]
    /\ UNCHANGED <<proof, stwoProof, keys, wrapped, rng>>

NextL1 ==
    \/ ProveEquality
    \/ FlipByte
    \/ SubstituteClaim
    \/ Forge
    \/ Redeclare
    \/ VerifyEquality
    \/ NativeVerify
    \/ NativeVerifyWithResult

SpecL1 == Init /\ [][NextL1]_vars

(***************************************************************************)
(* Layer 1, stwo backend (diem-prover-stwo).  Field elements are kept as   *)
(* the raw 32-bit words from_u32_unchecked stores.  The EqualityProof      *)
(* holds the StarkProof structurally; its parts are bytes and byte         *)
(* sequences: the three tree roots, the sampled values of the two          *)
(* columns, the proof-of-work nonce and the FRI proof.                     *)
(***************************************************************************)
LOG_N_LANES == 4

LOG_N_ROWS == 5

PcsConfig_default ==
    [pow_bits |-> 5,
     fri_config |-> [log_blowup_factor |-> 1, log_last_layer_degree_bound |-> 0,
                     n_queries |-> 3]]

PcsConfigBytes(c) ==
    << c.pow_bits, c.fri_config.log_blowup_factor,
       c.fri_config.log_last_layer_degree_bound, c.fri_config.n_queries >>

from_u32_unchecked(v) == v

RECURSIVE Pow2(_)
Pow2(n) == IF n = 0 THEN 1 ELSE 2 * Pow2(n - 1)

stwo_generate_trace(log_size, a_val, b_val) ==
    IF log_size < LOG_N_LANES
    THEN Panic("log_size must be at least LOG_N_LANES")
    ELSE LET size == Pow2(log_size)
         IN  Ok(<< [i \in 1..size |-> from_u32_unchecked(a_val)],
                   [i \in 1..size |-> from_u32_unchecked(b_val)] >>)

\* the root of a commitment tree over a (possibly empty) list of columns
TreeRoot(config, cols) ==
    Digest(<< config.fri_config.log_blowup_factor >>
           \o [c \in 1..Len(cols) |->
                 MerkleRoot([r \in 1..Len(cols[c]) |-> Digest(cols[c][r])])])

\* the constraint a - b of EqualityEval at one row of mask values
EqualityEval_evaluate(a, b) == a = b

PowNonce(config, commitments, sampled) ==
    Digest(<< config.pow_bits >> \o commitments \o sampled)

StwoFriTag(config, commitments, sampled, nonce) ==
    Mix(Digest(PcsConfigBytes(config) \o commitments \o sampled), nonce)

\* stwo::prover::prove for one component over the committed trees
StwoProve(config, log_n_rows, roots, trace) ==
    LET composition == [i \in 1..Pow2(log_n_rows) |->
                          IF EqualityEval_evaluate(trace[1][i], trace[2][i])
                          THEN << 0 >> ELSE << 1 >>]
        commitments == roots \o << TreeRoot(config, << composition >>) >>
        sampled == trace[1][1] \o trace[2][1]
        nonce == PowNonce(config, commitments, sampled)
    IN  [commitments |-> commitments, sampled |-> sampled,
         proof_of_work |-> nonce,
         fri |-> StwoFriTag(config, commitments, sampled, nonce)]

\* stwo::core::verifier::verify: out-of-domain check of the composition,
\* then proof of work, then FRI
StwoVerify(config, log_n_rows, committed, p) ==
    IF ~EqualityEval_evaluate(SubSeq(p.sampled, 1, 4), SubSeq(p.sampled, 5, 8))
    THEN "OodsNotMatching"
    ELSE IF committed # SubSeq(p.commitments, 1, 2)
            \/ p.proof_of_work # PowNonce(config, p.commitments, p.sampled)
    THEN "ProofOfWork"
    ELSE IF p.fri # StwoFriTag(config, p.commitments, p.sampled, p.proof_of_work)
    THEN "Fri"
    ELSE "Ok"

\* Blake2sM31Channel::default(): the state of a fresh channel
Blake2sM31Channel_default == 0

\* MerkleChannel::mix_root: a tree root is absorbed into the channel
mix_root(channel, root) == Mix(channel, root)

\* the channel operations of prove_equality in program order: the commit of
\* the preprocessed tree, the commit of the trace tree, then prove, which
\* draws the first challenge
ProverChannelOps(config, a, b) ==
    << [op |-> "mix_root", tree |-> "preprocessed", root |-> TreeRoot(config, << >>)],
       [op |-> "mix_root", tree |-> "trace",
        root |-> TreeRoot(config, stwo_generate_trace(LOG_N_ROWS, a, b).val)],
       [op |-> "draw", tree |-> "none", root |-> 0] >>

\* a verifier that absorbs the trace commitment before the preprocessed one
VerifierChannelOps_Swapped(pr) ==
    << [op |-> "mix_root", tree |-> "trace", root |-> pr.stark_proof.commitments[2]],
       [op |-> "mix_root", tree |-> "preprocessed",
        root |-> pr.stark_proof.commitments[1]],
       [op |-> "draw", tree |-> "none", root |-> 0] >>

\* the channel operations of verify_equality in program order: the two
\* commitments of the proof, then verify, which draws the first challenge
VerifierChannelOps(pr) ==
    << [op |-> "mix_root", tree |-> "preprocessed",
        root |-> pr.stark_proof.commitments[1]],
       [op |-> "mix_root", tree |-> "trace", root |-> pr.stark_proof.commitments[2]],
       [op |-> "draw", tree |-> "none", root |-> 0] >>

\* the state of the channel when the first challenge is drawn from it
RECURSIVE ChannelAtFirstDraw(_, _)
ChannelAtFirstDraw(channel, ops) ==
    IF ops = << >> \/ Head(ops).op = "draw" THEN channel
    ELSE ChannelAtFirstDraw(mix_root(channel, Head(ops).root), Tail(ops))

\* what a build makes of a word that is not a reduced field element
UncheckedOutcomes == { "reduced", "garbage", "panic" }

stwo_prove_equality(a, b, unchecked) ==
    IF a # b
    THEN [outcome |-> Err("Cannot prove equality", "a != b"),
          steps |-> << "check_equal" >>]
    ELSE LET config == PcsConfig_default
             pre == << "check_equal", "precompute_twiddles", "new_channel",
                       "commit_preprocessed", "generate_trace" >>
             t == stwo_generate_trace(LOG_N_ROWS, a, b)
         IN  IF t.tag = "Panic" THEN [outcome |-> t, steps |-> pre]
             ELSE IF a[4] >= 128 /\ unchecked = "panic"
             THEN [outcome |-> Panic("arithmetic overflow"),
                   steps |-> pre \o << "commit_trace" >>]
             ELSE LET roots == << TreeRoot(config, << >>), TreeRoot(config, t.val) >>
                      sp == StwoProve(config, LOG_N_ROWS, roots, t.val)
                  IN  [outcome |->
                         Ok([config |-> config,
                             stark_proof |->
                                IF a[4] >= 128 /\ unchecked = "garbage"
                                THEN [sp EXCEPT !.fri = Mix(sp.fri, 1)] ELSE sp,
                             a |-> a, b |-> b]),
                       steps |-> pre \o << "commit_trace", "prove" >>]

stwo_verify_equality(pr) ==
    LET config == pr.config
        cs == pr.stark_proof.commitments
    IN  IF Len(cs) < 2 THEN Panic("index out of bounds")
        ELSE LET v == StwoVerify(config, LOG_N_ROWS, << cs[1], cs[2] >>,
                                 pr.stark_proof)
             IN  IF v # "Ok" THEN Err("verification error", v) ELSE Ok(TRUE)

\* the parts of a stwo EqualityProof a tampering caller reaches
StwoFields == { "a", "b", "commitments", "sampled", "proof_of_work", "fri" }

StwoPart(pr, f) ==
    IF f \in {"a", "b"} THEN pr[f]
    ELSE IF f \in {"proof_of_work", "fri"} THEN << pr.stark_proof[f] >>
    ELSE pr.stark_proof[f]

StwoWithPart(pr, f, s) ==
    IF f \in {"a", "b"} THEN [pr EXCEPT ![f] = s]
    ELSE IF f \in {"proof_of_work", "fri"}
    THEN [pr EXCEPT !.stark_proof = [@ EXCEPT ![f] = s[1]]]
    ELSE [pr EXCEPT !.stark_proof = [@ EXCEPT ![f] = s]]

StwoProveEquality ==
    /\ stwoProof = NoProof
    /\ \E a \in ClaimValues, b \in ClaimValues :
       \E u \in IF a = b /\ a[4] >= 128 THEN UncheckedOutcomes ELSE {"reduced"} :
         LET r == stwo_prove_equality(a, b, u)
         IN  /\ last' = [op |-> "stwo_prove_equality", a |-> a, b |-> b,
                         outcome |-> r.outcome, steps |-> r.steps,
                         channel_ops |->
                            IF r.outcome.tag = "Ok"
                            THEN ProverChannelOps(PcsConfig_default, a, b)
                            ELSE << >>]
             /\ stwoProof' = IF r.outcome.tag = "Ok"
                             THEN Some(r.outcome.val, "honest") ELSE stwoProof
    /\ UNCHANGED <<proof, keys, wrapped, rng>>

\* one byte of a proof the verifier accepts is changed
StwoFlipByte ==
    /\ stwoProof.tag = "Some"
    /\ stwoProof.origin = "honest"
    /\ stwo_verify_equality(stwoProof.obj) = Ok(TRUE)
    /\ \E f \in StwoFields, m \in FlipMasks :
       \E i \in 1..Len(StwoPart(stwoProof.obj, f)) :
         /\ stwoProof' = Some(StwoWithPart(stwoProof.obj, f,
                                           FlipAt(StwoPart(stwoProof.obj, f), i, m)),
                              "flipped")
         /\ last' = [op |-> "stwo_flip", field |-> f, index |-> i, mask |-> m,
                     before |-> stwoProof.obj]
    /\ UNCHANGED <<proof, keys, wrapped, rng>>

StwoSubstituteClaim ==
    /\ stwoProof.tag = "Some"
    /\ stwoProof.origin = "honest"
    /\ stwo_verify_equality(stwoProof.obj) = Ok(TRUE)
    /\ \E v \in ClaimValues :
         /\ v # stwoProof.obj.a
         /\ stwoProof' = Some([stwoProof.obj EXCEPT !.a = v, !.b = v], "substituted")
         /\ last' = [op |-> "stwo_substitute", before |-> stwoProof.obj]
    /\ UNCHANGED <<proof, keys, wrapped, rng>>

\* configurations of a prover that was not set up as prove_equality is:
\* fewer queries and no proof of work
OtherPcsConfigs ==
    { [pow_bits |-> 0,
       fri_config |-> [log_blowup_factor |-> 1, log_last_layer_degree_bound |-> 0,
                       n_queries |-> 1]],
      [pow_bits |-> 5,
       fri_config |-> [log_blowup_factor |-> 2, log_last_layer_degree_bound |-> 0,
                       n_queries |-> 3]] }

\* the proof the stwo prover builds when it runs under config
StwoProofUnder(config, a, b) ==
    LET t == stwo_generate_trace(LOG_N_ROWS, a, b).val
        roots == << TreeRoot(config, << >>), TreeRoot(config, t) >>
    IN  [config |-> config,
         stark_proof |-> StwoProve(config, LOG_N_ROWS, roots, t),
         a |-> a, b |-> b]

\* a proof made under another configuration reaches the verifier
StwoProveOtherConfig ==
    /\ stwoProof = NoProof
    /\ \E c \in OtherPcsConfigs, a \in { U32(0), U32(42) } :
         /\ stwoProof' = Some(StwoProofUnder(c, a, a), "other_config")
         /\ last' = [op |-> "stwo_prove_other_config", config |-> c]
    /\ UNCHANGED <<proof, keys, wrapped, rng>>

StwoVerifyEquality ==
    /\ stwoProof.tag = "Some"
    /\ last' = [op |-> "stwo_verify_equality",
                outcome |-> stwo_verify_equality(stwoProof.obj),
                channel_ops |->
                   IF Len(stwoProof.obj.stark_proof.commitments) < 2 THEN << >>
                   ELSE VerifierChannelOps(stwoProof.obj)]
    /\ UNCHANGED <<proof, stwoProof, keys, wrapped, rng>>

NextStwo ==
    \/ StwoProveEquality
    \/ StwoProveOtherConfig
    \/ StwoFlipByte
    \/ StwoSubstituteClaim
    \/ StwoVerifyEquality

SpecStwo == Init /\ [][NextStwo]_vars

(***************************************************************************)
(* Layer 2: the Groth16 wrapping (diem-prover-plonk snark_wrapper.rs).     *)
(* Decimal strings are sequences of characters: the digits 0..9 and one    *)
(* character, NonDigit, that is not a digit.                               *)
(***************************************************************************)
NonDigit == 10

\* quotient and remainder of a little-endian byte string by ten
DivMod10(v) ==
    LET c4 == v[4]
        c3 == ((c4 % 10) * 256) + v[3]
        c2 == ((c3 % 10) * 256) + v[2]
        c1 == ((c2 % 10) * 256) + v[1]
    IN  [quot |-> << c1 \div 10, c2 \div 10, c3 \div 10, c4 \div 10 >>,
         rem |-> c1 % 10]

RECURSIVE Digits(_)
Digits(v) ==
    IF v = << 0, 0, 0, 0 >> THEN << >>
    ELSE Digits(DivMod10(v).quot) \o << DivMod10(v).rem >>

\* a formatter that writes zero as the empty string
to_string_NoZero(v) == Digits(v)

\* u32::to_string
to_string(v) == IF v = << 0, 0, 0, 0 >> THEN << 0 >> ELSE Digits(v)

\* v * 10 + d on a little-endian byte string; a fifth byte holds the overflow
MulAdd10(v, d) ==
    LET c1 == (v[1] * 10) + d
        c2 == (v[2] * 10) + (c1 \div 256)
        c3 == (v[3] * 10) + (c2 \div 256)
        c4 == (v[4] * 10) + (c3 \div 256)
    IN  << c1 % 256, c2 % 256, c3 % 256, c4 % 256, c4 \div 256 >>

RECURSIVE ParseFrom(_, _)
ParseFrom(acc, s) ==
    IF s = << >> THEN [ok |-> TRUE, val |-> acc]
    ELSE IF Head(s) > 9 THEN [ok |-> FALSE, err |-> "invalid digit found in string"]
    ELSE LET n == MulAdd10(acc, Head(s))
         IN  IF n[5] # 0
             THEN [ok |-> FALSE, err |-> "number too large to fit in target type"]
             ELSE ParseFrom(SubSeq(n, 1, 4), Tail(s))

\* str::parse::<u32>
parse(s) ==
    IF s = << >> THEN [ok |-> FALSE, err |-> "cannot parse integer from empty string"]
    ELSE ParseFrom(<< 0, 0, 0, 0 >>, s)

\* Sha256 over the updates of hash_stark_proof, as an ideal hash of two
\* four-bit words
Sha256(s) == << Digest(<< 2 >> \o s) \div 16, Digest(<< 2 >> \o s) % 16 >>

\* an update list that leaves num_rows out
hash_updates_NoRows(pr) == pr.proof_bytes \o pr.a \o pr.b

\* the bytes the four hasher.update calls feed to the hasher, in order
hash_updates(pr) == pr.proof_bytes \o pr.a \o pr.b \o pr.num_rows

hash_stark_proof(pr) == Sha256(hash_updates(pr))

NoneValue == [some |-> FALSE]

SomeValue(x) == [some |-> TRUE, val |-> x]

StarkVerifierCircuit_new(proof_hash, a, b) ==
    [proof_hash |-> SomeValue(proof_hash), verified_a |-> SomeValue(a),
     verified_b |-> SomeValue(b)]

StarkVerifierCircuit_empty ==
    [proof_hash |-> NoneValue, verified_a |-> NoneValue, verified_b |-> NoneValue]

\* The constraint system generate_constraints builds: the variables it
\* allocates, the constraints it enforces, the value of the public input
\* and whether the assignment satisfies the constraints.  In setup mode
\* the assignment closures are not run.
generate_constraints(self, setup_mode) ==
    IF ~setup_mode /\ (~self.verified_a.some \/ ~self.verified_b.some)
    THEN [ok |-> FALSE, err |-> "AssignmentMissing"]
    ELSE LET base_w == << "a_witness", "b_witness" >>
             base_c == << "a_witness = a_public", "a_witness = b_witness" >>
             hash_w == << "hash_var", "is_zero", "inverse" >>
             hash_c == << "is_zero * hash_var = 0", "hash_var * inverse = 1 - is_zero",
                          "is_zero = FALSE" >>
             with_hash == self.proof_hash.some
         IN  [ok |-> TRUE,
              instance |-> << "one", "a_public" >>,
              witness |-> IF with_hash THEN base_w \o hash_w ELSE base_w,
              constraints |-> IF with_hash THEN base_c \o hash_c ELSE base_c,
              public |-> IF setup_mode THEN NoneValue ELSE self.verified_a,
              satisfied |->
                 IF setup_mode THEN TRUE
                 ELSE /\ self.verified_a.val = self.verified_b.val
                      /\ with_hash => self.proof_hash.val[1] # 0]

\* the shape of a constraint system that a Groth16 key is generated for
Topology(cs) ==
    [num_instance |-> Len(cs.instance), num_witness |-> Len(cs.witness),
     num_constraints |-> Len(cs.constraints)]

\* Groth16::setup: a key pair for the topology of the circuit, fresh for
\* every draw of the random generator
Groth16_setup(circuit, seed) ==
    LET cs == generate_constraints(circuit, TRUE)
    IN  [proving_key |-> [id |-> seed, topology |-> Topology(cs)],
         verifying_key |-> [id |-> seed, topology |-> Topology(cs),
                            gamma_abc_len |-> Len(cs.instance)]]

\* the compressed encoding of an outer proof: what it was made from, and a
\* last byte that makes the encoding a curve point
OuterPayload(pk, cs, r) ==
    << pk.id, Len(cs.witness), Len(cs.constraints),
       IF cs.satisfied /\ Topology(cs) = pk.topology THEN 1 ELSE 0 >>
    \o cs.public.val \o << r >>

OuterLen == 10

serialize_compressed(payload) == payload \o << Digest(payload) >>

deserialize_compressed(bytes) ==
    IF Len(bytes) # OuterLen THEN [ok |-> FALSE, err |-> "UnexpectedEof"]
    ELSE LET payload == SubSeq(bytes, 1, OuterLen - 1)
         IN  IF bytes[OuterLen] % 4 # Digest(payload) % 4
             THEN [ok |-> FALSE, err |-> "InvalidData"]
             ELSE [ok |-> TRUE, val |-> bytes]

\* the builds of the proving library: debug_assert!(cs.is_satisfied())
Builds == { "debug", "release" }

\* a prover that takes no randomness from the generator
Groth16_prove_Derandomized(pk, circuit, r, build) ==
    LET cs == generate_constraints(circuit, FALSE)
    IN  IF ~cs.ok THEN Err("SNARK proving failed", cs.err)
        ELSE IF ~cs.satisfied /\ build = "debug"
        THEN Panic("assertion failed: cs.is_satisfied().unwrap()")
        ELSE Ok(OuterPayload(pk, cs, 0))

Groth16_prove(pk, circuit, r, build) ==
    LET cs == generate_constraints(circuit, FALSE)
    IN  IF ~cs.ok THEN Err("SNARK proving failed", cs.err)
        ELSE IF ~cs.satisfied /\ build = "debug"
        THEN Panic("assertion failed: cs.is_satisfied().unwrap()")
        ELSE Ok(OuterPayload(pk, cs, r))

\* the pairing equation: it holds for a proof made under the proving key of
\* this verifying key, from a satisfied constraint system of the key's
\* topology, for these public inputs
PairingCheck(vk, p, inputs) ==
    /\ p[OuterLen] = Digest(SubSeq(p, 1, OuterLen - 1))
    /\ p[1] = vk.id
    /\ p[4] = 1
    /\ SubSeq(p, 5, 8) = inputs[1]

Groth16_verify_proof(vk, p, inputs) ==
    IF Len(inputs) + 1 # vk.gamma_abc_len
    THEN [ok |-> FALSE, err |-> "MalformedVerifyingKey"]
    ELSE [ok |-> TRUE, val |-> PairingCheck(vk, p, inputs)]

SnarkWrapper_new(seed) ==
    LET k == Groth16_setup(StarkVerifierCircuit_empty, seed)
    IN  [proving_key |-> k.proving_key, verifying_key |-> k.verifying_key]

Layer2Steps ==
    << "hash_stark_proof", "circuit_new", "thread_rng", "groth16_prove",
       "serialize_proof" >>

\* the proof hash computed before the inner proof is verified
SnarkWrapper_wrap_HashFirst(self, inner_proof, r, build) ==
    LET native_verifier == NativeStarkVerifier_new(inner_proof.num_rows)
        v == NativeStarkVerifier_verify(native_verifier, inner_proof)
        p == Groth16_prove(self.proving_key,
                           StarkVerifierCircuit_new(hash_stark_proof(inner_proof),
                                                    inner_proof.a, inner_proof.b),
                           r, build)
    IN  IF v.outcome.tag # "Ok"
        THEN [outcome |-> v.outcome,
              steps |-> << "hash_stark_proof", "native_verify" >>]
        ELSE IF p.tag # "Ok"
        THEN [outcome |-> p,
              steps |-> << "hash_stark_proof", "native_verify", "circuit_new",
                           "thread_rng", "groth16_prove" >>]
        ELSE [outcome |->
                 Ok([inner_stark_proof |-> inner_proof,
                     outer_snark_proof |-> serialize_compressed(p.val),
                     public_inputs |-> << to_string(inner_proof.a) >>]),
              steps |-> << "hash_stark_proof", "native_verify", "circuit_new",
                           "thread_rng", "groth16_prove", "serialize_proof" >>]

SnarkWrapper_wrap(self, inner_proof, r, build) ==
    LET native_verifier == NativeStarkVerifier_new(inner_proof.num_rows)
        v == NativeStarkVerifier_verify(native_verifier, inner_proof)
    IN  IF v.outcome.tag # "Ok"
        THEN [outcome |-> v.outcome, steps |-> << "native_verify" >>]
        ELSE LET proof_hash == hash_stark_proof(inner_proof)
                 circuit == StarkVerifierCircuit_new(proof_hash, inner_proof.a,
                                                     inner_proof.b)
                 p == Groth16_prove(self.proving_key, circuit, r, build)
             IN  IF p.tag # "Ok"
                 THEN [outcome |-> p,
                       steps |-> << "native_verify" >> \o SubSeq(Layer2Steps, 1, 4)]
                 ELSE [outcome |->
                          Ok([inner_stark_proof |-> inner_proof,
                              outer_snark_proof |-> serialize_compressed(p.val),
                              public_inputs |-> << to_string(inner_proof.a) >>]),
                       steps |-> << "native_verify" >> \o Layer2Steps]

SnarkVerifier_new(verifying_key) == [verifying_key |-> verifying_key]

\* the public inputs parsed in order; the first failure ends the parse
RECURSIVE ParseInputs(_)
ParseInputs(ss) ==
    IF ss = << >> THEN [ok |-> TRUE, val |-> << >>]
    ELSE LET h == parse(Head(ss))
         IN  IF ~h.ok THEN h
             ELSE LET t == ParseInputs(Tail(ss))
                  IN  IF ~t.ok THEN t
                      ELSE [ok |-> TRUE, val |-> << h.val >> \o t.val]

\* a verifier that first re-runs Layer-1 verification of the inner proof
SnarkVerifier_verify_Dual(self, wp) ==
    LET v == NativeStarkVerifier_verify(
                 NativeStarkVerifier_default, wp.inner_stark_proof)
        d == deserialize_compressed(wp.outer_snark_proof)
    IN  IF v.outcome.tag # "Ok"
        THEN [outcome |-> v.outcome, steps |-> << "native_verify" >>]
        ELSE IF ~d.ok
        THEN [outcome |-> Err("Failed to deserialize SNARK proof", d.err),
              steps |-> << "native_verify", "deserialize" >>]
        ELSE [outcome |-> Ok("unit"),
              steps |-> << "native_verify", "deserialize", "parse_inputs",
                           "prepare_verifying_key", "verify_proof" >>]

\* the value Groth16::verify_proof returns is not looked at once it is Ok
SnarkVerifier_verify(self, wp) ==
    LET d == deserialize_compressed(wp.outer_snark_proof)
    IN  IF ~d.ok
        THEN [outcome |-> Err("Failed to deserialize SNARK proof", d.err),
              steps |-> << "deserialize" >>]
        ELSE LET public_inputs == ParseInputs(wp.public_inputs)
             IN  IF ~public_inputs.ok
                 THEN [outcome |-> Err("Failed to parse public input",
                                       public_inputs.err),
                       steps |-> << "deserialize", "parse_inputs" >>]
                 ELSE LET c == Groth16_verify_proof(self.verifying_key, d.val,
                                                    public_inputs.val)
                          steps == << "deserialize", "parse_inputs",
                                      "prepare_verifying_key", "verify_proof" >>
                      IN  IF ~c.ok
                          THEN [outcome |-> Err("SNARK verification failed", c.err),
                                steps |-> steps]
                          ELSE [outcome |-> Ok("unit"), steps |-> steps]

\* the SnarkVerifier of diem-prover-plonky3, over Marlin: the outer proof and
\* the keys have the encoding of the Groth16 ones in this model.
\* MarlinInst::verify batches its opening checks under a draw r of the
\* generator; a proof that passes the checks passes them under every draw
Marlin_SnarkVerifier_verify(self, wp, r) ==
    LET d == deserialize_compressed(wp.outer_snark_proof)
    IN  IF ~d.ok
        THEN [outcome |-> Err("Failed to deserialize Marlin proof", d.err),
              steps |-> << "deserialize" >>]
        ELSE LET public_inputs == ParseInputs(wp.public_inputs)
             IN  IF ~public_inputs.ok
                 THEN [outcome |-> Err("Failed to parse public input",
                                       public_inputs.err),
                       steps |-> << "deserialize", "parse_inputs" >>]
                 ELSE LET c == IF Len(public_inputs.val) + 1
                                       # self.verifying_key.gamma_abc_len
                               THEN [ok |-> FALSE, err |-> "IndexTooLarge"]
                               ELSE [ok |-> TRUE, drawn |-> r,
                                     val |-> PairingCheck(self.verifying_key, d.val,
                                                          public_inputs.val)]
                          steps == << "deserialize", "parse_inputs", "thread_rng",
                                      "verify" >>
                      IN  IF ~c.ok
                          THEN [outcome |-> Err("Marlin verification failed", c.err),
                                steps |-> steps]
                          ELSE [outcome |-> Ok("unit"), steps |-> steps]

SnarkVerifier_method(self) == "StarkInSnark"

SnarkVerifier_verify_with_result(self, wp) ==
    LET r == SnarkVerifier_verify(self, wp)
    IN  IF r.outcome.tag # "Ok" THEN r
        ELSE [outcome |->
                 Ok(with_metadata(VerificationResult_new(TRUE, "StarkInSnark"),
                                  "Verified STARK-in-SNARK proof")),
              steps |-> r.steps]

(***************************************************************************)
(* serde_json, as the derived Serialize / Deserialize of EqualityProof,    *)
(* NativeStarkProof and WrappedProof use it.  A JSON text is a sequence of *)
(* characters: the digits, NonDigit, the punctuation of JsonChar and one   *)
(* character for each field name.                                          *)
(***************************************************************************)
JsonChar ==
    [quote |-> 11, backslash |-> 12, comma |-> 13, lbracket |-> 14,
     rbracket |-> 15, lbrace |-> 16, rbrace |-> 17, colon |-> 18]

\* "name":
FieldKey(name) ==
    << JsonChar.quote,
       CASE name = "proof_bytes" -> 20
         [] name = "a" -> 21
         [] name = "b" -> 22
         [] name = "num_rows" -> 23
         [] name = "inner_stark_proof" -> 24
         [] name = "outer_snark_proof" -> 25
         [] name = "public_inputs" -> 26,
       JsonChar.quote, JsonChar.colon >>

\* the fields of the structs that derive Serialize and Deserialize, in the
\* order of their declaration, and the types of the fields
StructFields(struct) ==
    CASE struct = "EqualityProof" ->
           [names |-> << "proof_bytes", "a", "b" >>,
            types |-> << "bytes", "u32", "u32" >>]
      [] struct = "NativeStarkProof" ->
           [names |-> << "proof_bytes", "a", "b", "num_rows" >>,
            types |-> << "bytes", "u32", "u32", "usize" >>]
      [] struct = "WrappedProof" ->
           [names |-> << "inner_stark_proof", "outer_snark_proof", "public_inputs" >>,
            types |-> << "NativeStarkProof", "bytes", "strings" >>]

RECURSIVE Join(_)
Join(items) ==
    IF items = << >> THEN << >>
    ELSE IF Len(items) = 1 THEN items[1]
    ELSE items[1] \o << JsonChar.comma >> \o Join(Tail(items))

\* a string written with no escaping
RECURSIVE Escape_Raw(_)
Escape_Raw(s) ==
    IF s = << >> THEN << >> ELSE << Head(s) >> \o Escape_Raw(Tail(s))

RECURSIVE Escape(_)
Escape(s) ==
    IF s = << >> THEN << >>
    ELSE (IF Head(s) \in { JsonChar.quote, JsonChar.backslash }
          THEN << JsonChar.backslash, Head(s) >>
          ELSE << Head(s) >>) \o Escape(Tail(s))

\* a Vec<u8>: a list of decimal numbers
json_bytes(bs) ==
    << JsonChar.lbracket >>
        \o Join([i \in 1..Len(bs) |-> to_string(<< bs[i], 0, 0, 0 >>)])
        \o << JsonChar.rbracket >>

\* a Vec<String>: a list of quoted strings
json_strings(ss) ==
    << JsonChar.lbracket >>
        \o Join([i \in 1..Len(ss) |->
                   << JsonChar.quote >> \o Escape(ss[i]) \o << JsonChar.quote >>])
        \o << JsonChar.rbracket >>

json_struct(names, vals) ==
    << JsonChar.lbrace >>
        \o Join([i \in 1..Len(names) |-> FieldKey(names[i]) \o vals[i]])
        \o << JsonChar.rbrace >>

\* serde_json::to_string; the usize values of the model fit in four bytes
RECURSIVE serde_json_to_string(_, _)
serde_json_to_string(struct, x) ==
    json_struct(
        StructFields(struct).names,
        CASE struct = "EqualityProof" ->
               << json_bytes(x.proof_bytes), to_string(x.a), to_string(x.b) >>
          [] struct = "NativeStarkProof" ->
               << json_bytes(x.proof_bytes), to_string(x.a), to_string(x.b),
                  to_string(SubSeq(x.num_rows, 1, 4)) >>
          [] struct = "WrappedProof" ->
               << serde_json_to_string("NativeStarkProof", x.inner_stark_proof),
                  json_bytes(x.outer_snark_proof),
                  json_strings(x.public_inputs) >>)

JsonFail(e) == [ok |-> FALSE, err |-> e]

JsonDone(v, rest) == [ok |-> TRUE, val |-> v, rest |-> rest]

\* the length of the leading run of digits
RECURSIVE DigitRun(_)
DigitRun(s) == IF s = << >> \/ Head(s) > 9 THEN 0 ELSE 1 + DigitRun(Tail(s))

json_parse_u32(s) ==
    LET n == DigitRun(s)
    IN  IF n = 0 THEN JsonFail("expected value")
        ELSE LET r == parse(SubSeq(s, 1, n))
             IN  IF ~r.ok THEN JsonFail("invalid value: out of range")
                 ELSE JsonDone(r.val, SubSeq(s, n + 1, Len(s)))

\* the characters of a string after its opening quote
RECURSIVE ParseStringBody(_, _)
ParseStringBody(acc, s) ==
    IF s = << >> THEN JsonFail("EOF while parsing a string")
    ELSE IF Head(s) = JsonChar.quote THEN JsonDone(acc, Tail(s))
    ELSE IF Head(s) = JsonChar.backslash
    THEN IF Tail(s) = << >> THEN JsonFail("EOF while parsing a string")
         ELSE IF Head(Tail(s)) \in { JsonChar.quote, JsonChar.backslash }
         THEN ParseStringBody(Append(acc, Head(Tail(s))), Tail(Tail(s)))
         ELSE JsonFail("invalid escape")
    ELSE ParseStringBody(Append(acc, Head(s)), Tail(s))

RECURSIVE ParseValue(_, _)
RECURSIVE ParseItems(_, _, _)
RECURSIVE ParseFields(_, _, _, _)
RECURSIVE AfterKey(_, _, _, _)
RECURSIVE AfterValue(_, _, _, _)
\* the elements of a list after its opening bracket
ParseItems(type, acc, s) ==
    LET e == ParseValue(type, s)
    IN  IF ~e.ok THEN e
        ELSE IF e.rest = << >> THEN JsonFail("EOF while parsing a list")
        ELSE IF Head(e.rest) = JsonChar.comma
        THEN ParseItems(type, Append(acc, e.val), Tail(e.rest))
        ELSE IF Head(e.rest) = JsonChar.rbracket
        THEN JsonDone(Append(acc, e.val), Tail(e.rest))
        ELSE JsonFail("expected comma or closing bracket")

\* the fields of a struct in the order the derived Serialize writes them
ParseFields(names, types, acc, s) ==
    AfterKey(names, types, acc,
             LET k == FieldKey(Head(names))
             IN  IF Len(s) >= Len(k) /\ SubSeq(s, 1, Len(k)) = k
                 THEN JsonDone(Head(names), SubSeq(s, Len(k) + 1, Len(s)))
                 ELSE JsonFail("missing field"))

AfterKey(names, types, acc, k) ==
    IF ~k.ok THEN k
    ELSE AfterValue(names, types, acc, ParseValue(Head(types), k.rest))

AfterValue(names, types, acc, v) ==
    IF ~v.ok THEN v
    ELSE IF v.rest = << >> THEN JsonFail("EOF while parsing an object")
    ELSE IF Len(names) = 1
    THEN (IF Head(v.rest) = JsonChar.rbrace
          THEN JsonDone(Append(acc, v.val), Tail(v.rest))
          ELSE JsonFail("expected closing brace"))
    ELSE IF Head(v.rest) = JsonChar.comma
    THEN ParseFields(Tail(names), Tail(types), Append(acc, v.val), Tail(v.rest))
    ELSE JsonFail("expected comma")

\* the struct built from the values of its fields
Build(names, r) ==
    IF ~r.ok THEN r
    ELSE JsonDone([n \in { names[i] : i \in 1..Len(names) } |->
                      r.val[CHOOSE i \in 1..Len(names) : names[i] = n]],
                  r.rest)

ParseValue(type, s) ==
    CASE type = "u32" -> json_parse_u32(s)
      [] type = "u8" ->
           LET r == json_parse_u32(s)
           IN  IF ~r.ok THEN r
               ELSE IF SubSeq(r.val, 2, 4) # << 0, 0, 0 >>
               THEN JsonFail("invalid value: out of range")
               ELSE JsonDone(r.val[1], r.rest)
      [] type = "usize" ->
           LET r == json_parse_u32(s)
           IN  IF ~r.ok THEN r ELSE JsonDone(r.val \o << 0, 0, 0, 0 >>, r.rest)
      [] type = "string" ->
           IF s = << >> \/ Head(s) # JsonChar.quote THEN JsonFail("expected a string")
           ELSE ParseStringBody(<< >>, Tail(s))
      [] type \in {"bytes", "strings"} ->
           IF s = << >> \/ Head(s) # JsonChar.lbracket
           THEN JsonFail("expected a sequence")
           ELSE IF Tail(s) # << >> /\ Head(Tail(s)) = JsonChar.rbracket
           THEN JsonDone(<< >>, Tail(Tail(s)))
           ELSE ParseItems(IF type = "bytes" THEN "u8" ELSE "string", << >>, Tail(s))
      [] type \in {"EqualityProof", "NativeStarkProof", "WrappedProof"} ->
           IF s = << >> \/ Head(s) # JsonChar.lbrace
           THEN JsonFail("expected an object")
           ELSE Build(StructFields(type).names,
                      ParseFields(StructFields(type).names, StructFields(type).types,
                                  << >>, Tail(s)))

\* serde_json::from_str: it fails on characters after the value
serde_json_from_str(struct, s) ==
    LET r == ParseValue(struct, s)
    IN  IF ~r.ok THEN r
        ELSE IF r.rest # << >> THEN JsonFail("trailing characters")
        ELSE [ok |-> TRUE, val |-> r.val]

(***************************************************************************)
(* Key distribution: the compressed encodings of the Groth16 keys.  The    *)
(* last byte makes the encoding a valid one, as the curve-point checks of  *)
(* deserialize_compressed do.                                              *)
(***************************************************************************)
KeyPayload(key) ==
    << key.id, key.topology.num_instance, key.topology.num_witness,
       key.topology.num_constraints >>

\* an encoding of the verifying key that stops before gamma_abc_g1
VerifyingKey_serialize_compressed_Short(vk) ==
    KeyPayload(vk) \o << Digest(KeyPayload(vk)) >>

VerifyingKey_serialize_compressed(vk) ==
    LET payload == KeyPayload(vk) \o << vk.gamma_abc_len >>
    IN  payload \o << Digest(payload) >>

\* a proving key holds its verifying key, then the query vectors
ProvingKey_serialize_compressed(pk) ==
    LET payload == KeyPayload(pk) \o << pk.topology.num_instance + 1 >>
                       \o << pk.topology.num_witness, pk.topology.num_constraints >>
    IN  payload \o << Digest(payload) >>

VerifyingKey_deserialize_compressed(bytes) ==
    IF Len(bytes) # 6 THEN [ok |-> FALSE, err |-> "UnexpectedEof"]
    ELSE IF bytes[6] # Digest(SubSeq(bytes, 1, 5))
    THEN [ok |-> FALSE, err |-> "InvalidData"]
    ELSE [ok |-> TRUE,
          val |-> [id |-> bytes[1],
                   topology |-> [num_instance |-> bytes[2], num_witness |-> bytes[3],
                                 num_constraints |-> bytes[4]],
                   gamma_abc_len |-> bytes[5]]]

ProvingKey_deserialize_compressed(bytes) ==
    IF Len(bytes) # 8 THEN [ok |-> FALSE, err |-> "UnexpectedEof"]
    ELSE IF bytes[8] # Digest(SubSeq(bytes, 1, 7))
    THEN [ok |-> FALSE, err |-> "InvalidData"]
    ELSE [ok |-> TRUE,
          val |-> [id |-> bytes[1],
                   topology |-> [num_instance |-> bytes[2], num_witness |-> bytes[3],
                                 num_constraints |-> bytes[4]]]]

SnarkWrapper_from_keys(proving_key, verifying_key) ==
    [proving_key |-> proving_key, verifying_key |-> verifying_key]

SnarkWrapper_from_serialized_keys(pk_bytes, vk_bytes) ==
    LET proving_key == ProvingKey_deserialize_compressed(pk_bytes)
        verifying_key == VerifyingKey_deserialize_compressed(vk_bytes)
    IN  IF ~proving_key.ok
        THEN Err("Failed to deserialize proving key", proving_key.err)
        ELSE IF ~verifying_key.ok
        THEN Err("Failed to deserialize verifying key", verifying_key.err)
        ELSE Ok(SnarkWrapper_from_keys(proving_key.val, verifying_key.val))

SnarkWrapper_serialize_keys(self) ==
    [pk_bytes |-> ProvingKey_serialize_compressed(self.proving_key),
     vk_bytes |-> VerifyingKey_serialize_compressed(self.verifying_key)]

(***************************************************************************)
(* Layer-2 calls.                                                          *)
(***************************************************************************)
MaxSetups == 2

MaxRng == 3

\* public inputs a caller puts in place of the wrapped proof's
OtherInputs ==
    { << >>, << << NonDigit >> >>, << to_string(U32(99)) >>,
      << to_string(U32(42)), to_string(U32(42)) >>,
      << << 4, 2, 9, 4, 9, 6, 7, 2, 9, 6 >> >>,
      << << JsonChar.quote, 4, 2, JsonChar.backslash >> >> }

Wrapped(obj, origin, key) ==
    [tag |-> "Some", obj |-> obj, origin |-> origin, key |-> key]

Setup ==
    /\ Len(keys) < MaxSetups
    /\ rng < MaxRng
    /\ keys' = Append(keys, SnarkWrapper_new(rng))
    /\ rng' = rng + 1
    /\ last' = [op |-> "setup", seed |-> rng]
    /\ UNCHANGED <<proof, stwoProof, wrapped>>

\* a wrap that keeps a use count in the wrapper it was called on
Wrap_CountsUses ==
    /\ proof.tag = "Some"
    /\ rng < MaxRng
    /\ \E k \in 1..Len(keys), build \in Builds :
         LET r == SnarkWrapper_wrap(keys[k], proof.obj, rng, build)
         IN  /\ last' = [op |-> "wrap", key |-> k, inner |-> proof.obj,
                         outcome |-> r.outcome, steps |-> r.steps]
             /\ wrapped' = IF r.outcome.tag = "Ok"
                           THEN Wrapped(r.outcome.val, "honest", k) ELSE wrapped
             /\ rng' = rng + 1
             /\ keys' = [keys EXCEPT ![k].verifying_key.gamma_abc_len = @ + 1]
    /\ UNCHANGED <<proof, stwoProof>>

Wrap ==
    /\ proof.tag = "Some"
    /\ rng < MaxRng
    /\ \E k \in 1..Len(keys), build \in Builds :
         LET r == SnarkWrapper_wrap(keys[k], proof.obj, rng, build)
         IN  /\ last' = [op |-> "wrap", key |-> k, inner |-> proof.obj,
                         outcome |-> r.outcome, steps |-> r.steps]
             /\ wrapped' = IF r.outcome.tag = "Ok"
                           THEN Wrapped(r.outcome.val, "honest", k) ELSE wrapped
             /\ rng' = IF \E i \in 1..Len(r.steps) : r.steps[i] = "thread_rng"
                       THEN rng + 1 ELSE rng
    /\ UNCHANGED <<proof, stwoProof, keys>>

TamperOuterProof ==
    /\ wrapped.tag = "Some"
    /\ wrapped.origin = "honest"
    /\ \E m \in FlipMasks, i \in 1..Len(wrapped.obj.outer_snark_proof) :
         /\ wrapped' = Wrapped([wrapped.obj EXCEPT !.outer_snark_proof = FlipAt(@, i, m)],
                               "tampered_proof", wrapped.key)
         /\ last' = [op |-> "tamper_outer", index |-> i, mask |-> m]
    /\ UNCHANGED <<proof, stwoProof, keys, rng>>

TamperPublicInputs ==
    /\ wrapped.tag = "Some"
    /\ wrapped.origin = "honest"
    /\ \E ss \in OtherInputs :
         /\ ss # wrapped.obj.public_inputs
         /\ wrapped' = Wrapped([wrapped.obj EXCEPT !.public_inputs = ss],
                               "tampered_inputs", wrapped.key)
         /\ last' = [op |-> "tamper_inputs"]
    /\ UNCHANGED <<proof, stwoProof, keys, rng>>

\* the inner proofs a holder of a WrappedProof can put in place of its own
InnerVariants(inner) ==
    { [inner EXCEPT !.proof_bytes = IF @ = << >> THEN << 1 >> ELSE FlipAt(@, 1, 1)],
      [inner EXCEPT !.proof_bytes = << >>],
      [inner EXCEPT !.a = U32(99), !.b = U32(99)],
      [inner EXCEPT !.num_rows = USize(2 * NUM_ROWS)] }

\* only the inner_stark_proof field of the wrapped proof is changed
ReplaceInnerProof ==
    /\ wrapped.tag = "Some"
    /\ wrapped.origin = "honest"
    /\ \E inner \in InnerVariants(wrapped.obj.inner_stark_proof) :
         /\ wrapped' = Wrapped([wrapped.obj EXCEPT !.inner_stark_proof = inner],
                               "inner_replaced", wrapped.key)
         /\ last' = [op |-> "replace_inner"]
    /\ UNCHANGED <<proof, stwoProof, keys, rng>>

SnarkVerify ==
    /\ wrapped.tag = "Some"
    /\ \E k \in 1..Len(keys) :
         LET self == SnarkVerifier_new(keys[k].verifying_key)
             r == SnarkVerifier_verify(self, wrapped.obj)
         IN  last' = [op |-> "snark_verify", key |-> k,
                      outcome |-> r.outcome, steps |-> r.steps]
    /\ UNCHANGED <<proof, stwoProof, keys, wrapped, rng>>

SnarkVerifyWithResult ==
    /\ wrapped.tag = "Some"
    /\ \E k \in 1..Len(keys) :
         LET self == SnarkVerifier_new(keys[k].verifying_key)
             r == SnarkVerifier_verify_with_result(self, wrapped.obj)
         IN  last' = [op |-> "snark_verify_with_result", key |-> k,
                      outcome |-> r.outcome, steps |-> r.steps]
    /\ UNCHANGED <<proof, stwoProof, keys, wrapped, rng>>

\* serde_json::to_string of the Layer-1 proof, then serde_json::from_str;
\* the result depends on the proof alone, so the call is taken right after
\* the proof was made
EqualityProofRoundTrip ==
    /\ proof.tag = "Some"
    /\ last.op \in {"prove_equality", "forge"}
    /\ LET ep == EqualityProofOf(proof.obj)
           d == serde_json_from_str("EqualityProof",
                                    serde_json_to_string("EqualityProof", ep))
       IN  /\ last' = [op |-> "json_round_trip", kind |-> "EqualityProof",
                       ok |-> d.ok, before |-> verify_equality(ep),
                       after |-> IF d.ok THEN verify_equality(d.val)
                                 ELSE Err("serde_json", d.err)]
           /\ proof' = IF d.ok
                       THEN [proof EXCEPT !.obj.proof_bytes = d.val.proof_bytes,
                                          !.obj.a = d.val.a, !.obj.b = d.val.b]
                       ELSE proof
    /\ UNCHANGED <<stwoProof, keys, wrapped, rng>>

\* serde_json::to_string of the wrapped proof, then serde_json::from_str;
\* the result depends on the wrapped proof and the key alone, so the call is
\* taken right after the wrapped proof was made or changed
WrappedProofRoundTrip ==
    /\ wrapped.tag = "Some"
    /\ last.op \in {"wrap", "tamper_outer", "tamper_inputs", "replace_inner"}
    /\ \E k \in 1..Len(keys) :
         LET self == SnarkVerifier_new(keys[k].verifying_key)
             d == serde_json_from_str(
                      "WrappedProof", serde_json_to_string("WrappedProof", wrapped.obj))
         IN  /\ last' = [op |-> "json_round_trip", kind |-> "WrappedProof",
                         key |-> k, ok |-> d.ok,
                         before |-> SnarkVerifier_verify(self, wrapped.obj).outcome,
                         after |-> IF d.ok
                                   THEN SnarkVerifier_verify(self, d.val).outcome
                                   ELSE Err("serde_json", d.err)]
             /\ wrapped' = IF d.ok THEN [wrapped EXCEPT !.obj = d.val] ELSE wrapped
    /\ UNCHANGED <<proof, stwoProof, keys, rng>>

\* serialize_keys, then a wrapper loaded by from_serialized_keys takes the
\* place of the one that ran the setup
ReloadKeys ==
    /\ last.op = "setup"
    /\ \E k \in 1..Len(keys) :
         LET bytes == SnarkWrapper_serialize_keys(keys[k])
             r == SnarkWrapper_from_serialized_keys(bytes.pk_bytes, bytes.vk_bytes)
         IN  /\ last' = [op |-> "reload_keys", key |-> k, before |-> keys[k],
                         outcome |-> r]
             /\ keys' = IF r.tag = "Ok" THEN [keys EXCEPT ![k] = r.val] ELSE keys
    /\ UNCHANGED <<proof, stwoProof, wrapped, rng>>

\* a verifier that received the verifying key's bytes and nothing else
VerifyWithDistributedKey ==
    /\ wrapped.tag = "Some"
    /\ last.op \in {"wrap", "tamper_outer"}
    /\ \E k \in 1..Len(keys) :
         LET vk_bytes == SnarkWrapper_serialize_keys(keys[k]).vk_bytes
             vk == VerifyingKey_deserialize_compressed(vk_bytes)
         IN  last' = [op |-> "verify_distributed", key |-> k, ok |-> vk.ok,
                      outcome |-> IF vk.ok
                                  THEN SnarkVerifier_verify(SnarkVerifier_new(vk.val),
                                                            wrapped.obj).outcome
                                  ELSE Err("VK deserialization failed", vk.err)]
    /\ UNCHANGED <<proof, stwoProof, keys, wrapped, rng>>

\* SnarkVerifier::verify of diem-prover-plonky3
MarlinSnarkVerify ==
    /\ wrapped.tag = "Some"
    /\ rng < MaxRng
    /\ \E k \in 1..Len(keys) :
         LET self == SnarkVerifier_new(keys[k].verifying_key)
             r == Marlin_SnarkVerifier_verify(self, wrapped.obj, rng)
         IN  /\ last' = [op |-> "marlin_snark_verify", key |-> k,
                         outcome |-> r.outcome, steps |-> r.steps]
             /\ rng' = IF \E i \in 1..Len(r.steps) : r.steps[i] = "thread_rng"
                       THEN rng + 1 ELSE rng
    /\ UNCHANGED <<proof, stwoProof, keys, wrapped>>

NextL2 ==
    \/ ProveEquality
    \/ Forge
    \/ Setup
    \/ Wrap
    \/ TamperOuterProof
    \/ TamperPublicInputs
    \/ ReplaceInnerProof
    \/ EqualityProofRoundTrip
    \/ WrappedProofRoundTrip
    \/ ReloadKeys
    \/ VerifyWithDistributedKey
    \/ SnarkVerify
    \/ SnarkVerifyWithResult
    \/ MarlinSnarkVerify

SpecL2 == Init /\ [][NextL2]_vars

(***************************************************************************)
(* Properties of Layer 1 (checked under SpecL1).                           *)
(***************************************************************************)
IsLayer1Verify == last.op \in {"verify_equality", "native_verify"}

\* a NativeStarkVerifier call made with the default verifier (32 rows)
ByDefaultVerifier ==
    last.op = "verify_equality"
    \/ (last.op = "native_verify" /\ last.self = NativeStarkVerifier_default)

CryptoSteps ==
    {"new_challenger", "generate_trace", "serialize"}
    \cup {StarkProveSteps[i] : i \in 1..Len(StarkProveSteps)}

\* C2: for every pair a != b, prove_equality(a, b) returns the
\* equality-violation error and no proof object, before any trace is built,
\* any commitment is computed or any channel operation is performed.
C2_UnequalFailsFast ==
    (last.op = "prove_equality" /\ last.a # last.b)
        => /\ last.outcome.tag = "Err"
           /\ last.outcome.msg = "Cannot prove equality"
           /\ proof = NoProof
           /\ \A i \in 1..Len(last.steps) : last.steps[i] \notin CryptoSteps

C2_Witness ==
    /\ last.op = "prove_equality"
    /\ last.a = U32_MAX
    /\ last.b = U32(42)
    /\ last.outcome.tag = "Err"

\* C4 as stated: Layer-1 verification of a valid proof whose claim values
\* were replaced by another equal pair, proof bytes kept, is never accepted.
C4_SubstitutedClaimRejected ==
    (last.op = "verify_equality" /\ proof.origin = "substituted")
        => last.outcome.tag # "Ok"

\* the failure kind of the specification that a returned error shows
ErrorKind(e) ==
    IF e.cause = "OodEvaluationMismatch" THEN "ConstraintViolation"
    ELSE IF e.cause = "InvalidOpeningArgument(FinalPolyMismatch)" THEN "DegreeBoundExceeded"
    ELSE IF e.cause = "InvalidOpeningArgument(InputError)" THEN "CommitmentOpeningInvalid"
    ELSE "Other"

\* the failure a forged proof has, by the way it was forged
ForgedFailure(k) ==
    IF k = "zero_quotient" THEN "ConstraintViolation"
    ELSE IF k = "honest_quotient" THEN "DegreeBoundExceeded"
    ELSE "CommitmentOpeningInvalid"

C11_NoPanic ==
    (last.op \in {"prove_equality", "verify_equality", "native_verify",
                  "native_verify_with_result"})
        => last.outcome.tag \in {"Ok", "Err"}

\* a claim value outside the canonical range 0 .. 2^31 - 2 of the field
OutOfCanonicalRange(v) == v[4] >= 128 \/ v = U32(M31_P)

\* C12 as stated: a claim value that does not fit the canonical range of
\* the field (v >= 2^31 - 1) is rejected at trace construction with an
\* error, and no proof is produced for it.
C12_OutOfRangeRejected ==
    (last.op = "prove_equality" /\ last.a = last.b
       /\ OutOfCanonicalRange(last.a))
        => /\ last.outcome.tag = "Err"
           /\ proof = NoProof

(***************************************************************************)
(* Properties of the stwo backend (checked under SpecStwo).                *)
(***************************************************************************)
\* C7 as stated: after any single byte of a valid Layer-1 proof's
\* representation (claimed a, claimed b, proof contents) is changed,
\* verification fails with an error.
C7_FlippedByteRejected ==
    (last.op = "stwo_verify_equality" /\ stwoProof.origin = "flipped")
        => last.outcome.tag = "Err"

(***************************************************************************)
(* Properties of Layer 2 (checked under SpecL2).                           *)
(***************************************************************************)
\* what the Layer-1 verifier that wrap constructs returns for an inner proof
InnerVerdict(inner) ==
    NativeStarkVerifier_verify(NativeStarkVerifier_new(inner.num_rows), inner).outcome

\* the verifying key of the k-th setup run
KeyOf(k) == keys[k].verifying_key

\* the outer proof decodes, its inputs parse and their count fits the key
WellFormed(wp, vk) ==
    /\ deserialize_compressed(wp.outer_snark_proof).ok
    /\ ParseInputs(wp.public_inputs).ok
    /\ Len(wp.public_inputs) + 1 = vk.gamma_abc_len

\* the pairing equation of a well-formed wrapped proof under a key
CheckHolds(wp, vk) ==
    PairingCheck(vk, wp.outer_snark_proof, ParseInputs(wp.public_inputs).val)

\* C3 as stated: a WrappedProof made under the keys of one setup run is
\* rejected by a SnarkVerifier built with the verifying key of another
\* setup run: verify returns an error, never Ok.
C3_OtherKeyRejects ==
    (last.op = "snark_verify" /\ wrapped.origin = "honest"
       /\ last.key # wrapped.key)
        => last.outcome.tag = "Err"

\* C5: wrap runs the Layer-1 verifier on the inner proof as its first
\* step; whenever that verification does not succeed, wrap returns the
\* verifier's error and no proof hash, circuit synthesis, Layer-2 proving
\* or proof serialization has happened.
C5_WrapVerifiesFirst ==
    (last.op = "wrap")
        => /\ last.steps[1] = "native_verify"
           /\ (InnerVerdict(last.inner).tag # "Ok")
                 => /\ last.outcome = InnerVerdict(last.inner)
                    /\ \A i \in 1..Len(last.steps), j \in 1..Len(Layer2Steps) :
                          last.steps[i] # Layer2Steps[j]
           /\ (proof.origin \in ForgeKinds)
                 => /\ last.outcome.tag = "Err"
                    /\ last.outcome.msg = "STARK verification failed"
                    /\ last.steps = << "native_verify" >>

C5_Witness ==
    /\ last.op = "wrap"
    /\ proof.origin = "zero_quotient"
    /\ last.outcome.tag = "Err"
    /\ last.outcome.cause = "OodEvaluationMismatch"
    /\ wrapped = NoProof

\* C6 as stated: for every inner proof the Layer-1 verifier accepts, wrap
\* returns a WrappedProof whose outer proof satisfies the pairing equation
\* under the wrapper's own verifying key and the proof's public inputs.
C6_WrapSatisfiesRelation ==
    (last.op = "wrap" /\ InnerVerdict(last.inner).tag = "Ok")
        => /\ last.outcome.tag = "Ok"
           /\ WellFormed(last.outcome.val, KeyOf(last.key))
           /\ CheckHolds(last.outcome.val, KeyOf(last.key))

\* C8 as stated: a well-formed outer proof whose pairing check evaluates
\* to false is reported by SnarkVerifier::verify as a failure.
C8_FalseCheckIsFailure ==
    (last.op = "snark_verify" /\ WellFormed(wrapped.obj, KeyOf(last.key))
       /\ ~CheckHolds(wrapped.obj, KeyOf(last.key)))
        => last.outcome.tag = "Err"

\* C10 as stated: when verification of a well-formed proof fails, the
\* facade returns a VerificationResult with valid = FALSE.
C10_FailureReportedInvalid ==
    (last.op = "snark_verify_with_result"
       /\ WellFormed(wrapped.obj, KeyOf(last.key))
       /\ ~CheckHolds(wrapped.obj, KeyOf(last.key)))
        => /\ last.outcome.tag = "Ok"
           /\ last.outcome.val.valid = FALSE

\* C13 as stated: a proof that carries a configuration other than the
\* verifier's fixed one is rejected; the verifier never adopts parameters
\* supplied by the proof.
C13_OtherConfigRejected ==
    (last.op = "stwo_verify_equality"
       /\ stwoProof.obj.config # PcsConfig_default)
        => last.outcome.tag = "Err"

\* the wrapped proof with its inner proof exchanged for one of the variants
WithInner(wp) ==
    { [wp EXCEPT !.inner_stark_proof = inner] :
        inner \in InnerVariants(wp.inner_stark_proof) }

\* C14: SnarkVerifier::verify is layer-local: it runs no Layer-1
\* verification, and every WrappedProof that differs from the verified one
\* only in inner_stark_proof gets the same outcome under the same key.
C14_LayerLocal ==
    (last.op = "snark_verify")
        => /\ \A i \in 1..Len(last.steps) : last.steps[i] # "native_verify"
           /\ \A wp \in WithInner(wrapped.obj) :
                 SnarkVerifier_verify(SnarkVerifier_new(KeyOf(last.key)), wp).outcome
                     = last.outcome

\* a wrapped proof whose inner proof was replaced is accepted by Layer 2
C14_Witness ==
    /\ last.op = "snark_verify"
    /\ wrapped.origin = "inner_replaced"
    /\ last.outcome.tag = "Ok"
    /\ NativeStarkVerifier_verify(NativeStarkVerifier_default,
                                  wrapped.obj.inner_stark_proof).outcome.tag = "Err"

\* C15: serializing a Layer-1 proof or a WrappedProof to JSON and
\* deserializing it again succeeds and yields a proof with the same
\* verification outcome as the original, valid or invalid.
C15_RoundTripPreservesOutcome ==
    (last.op = "json_round_trip")
        => /\ last.ok
           /\ last.after = last.before

\* a wrapped proof that verified is read back and verified again
C15_Witness ==
    /\ last.op = "json_round_trip"
    /\ last.kind = "WrappedProof"
    /\ last.before = Ok("unit")
    /\ wrapped.origin = "honest"

\* C16: serialize_keys followed by from_serialized_keys yields a wrapper with
\* the same proving and verifying keys, and a SnarkVerifier built from the
\* deserialized verifying key alone accepts the proofs that the matching
\* proving key produced.
C16_KeysRoundTrip ==
    /\ (last.op = "reload_keys")
          => /\ last.outcome = Ok(last.before)
             /\ keys[last.key] = last.before
    /\ (last.op = "verify_distributed" /\ wrapped.origin = "honest"
            /\ last.key = wrapped.key)
          => /\ last.ok
             /\ last.outcome = Ok("unit")

\* a proof wrapped under reloaded keys is accepted by a verifier that holds
\* only the deserialized verifying key
C16_Witness ==
    /\ last.op = "verify_distributed"
    /\ wrapped.origin = "honest"
    /\ last.key = wrapped.key
    /\ last.outcome = Ok("unit")

\* a second wrap of the inner proof that the current wrapped proof was made
\* from, under the same keys, returns a proof
SecondWrap ==
    /\ last'.op = "wrap"
    /\ last'.outcome.tag = "Ok"
    /\ wrapped.tag = "Some"
    /\ wrapped.origin = "honest"
    /\ wrapped.key = last'.key
    /\ wrapped.obj.inner_stark_proof = last'.inner

\* C17: two wrap calls on the same inner proof with the same keys each draw
\* fresh randomness and return WrappedProofs with distinct outer_snark_proof
\* bytes, and SnarkVerifier::verify accepts both under the same verifying key.
C17_FreshRandomness ==
    [][SecondWrap =>
          /\ rng' # rng
          /\ wrapped'.obj.outer_snark_proof # wrapped.obj.outer_snark_proof
          /\ wrapped'.obj.inner_stark_proof = wrapped.obj.inner_stark_proof
          /\ SnarkVerifier_verify(SnarkVerifier_new(KeyOf(wrapped.key)),
                                  wrapped.obj).outcome = Ok("unit")
          /\ SnarkVerifier_verify(SnarkVerifier_new(KeyOf(wrapped.key)),
                                  wrapped'.obj).outcome = Ok("unit")]_vars

\* a proof that wrap returned on the third draw of the generator, under the
\* only key, for an inner proof that was wrapped before
C17_Witness ==
    /\ last.op = "wrap"
    /\ last.outcome.tag = "Ok"
    /\ Len(keys) = 1
    /\ proof.obj.a # U32(15)
    /\ wrapped.origin = "honest"
    /\ wrapped.obj.outer_snark_proof[OuterLen - 1] = 2

\* the verification calls of both layers whose steps are recorded
IsVerifyCall ==
    last.op \in {"native_verify", "snark_verify", "snark_verify_with_result",
                 "marlin_snark_verify"}

\* C18: no verification call (NativeStarkVerifier::verify, verify_equality,
\* SnarkVerifier::verify) draws from a random generator.
C18_NoRandomnessOnVerify ==
    IsVerifyCall => \A i \in 1..Len(last.steps) : last.steps[i] # "thread_rng"

\* the positions of the channel operations ops that draw a challenge
Draws(ops) == { i \in 1..Len(ops) : ops[i].op = "draw" }

\* C19: the stwo prover commits the preprocessed tree, then the trace tree,
\* and draws no challenge before both roots are absorbed; the verifier absorbs
\* commitments[0] and commitments[1] of the proof into a fresh channel in that
\* order, and for a proof of prove_equality its channel equals the prover's
\* when the first challenge is drawn.
C19_CommitBeforeChallenge ==
    /\ (last.op = "stwo_prove_equality" /\ last.outcome.tag = "Ok")
          => /\ last.channel_ops[1].tree = "preprocessed"
             /\ last.channel_ops[2].tree = "trace"
             /\ \A i \in Draws(last.channel_ops) : i > 2
    /\ (last.op = "stwo_verify_equality" /\ stwoProof.origin = "honest")
          => /\ last.channel_ops[1] =
                   [op |-> "mix_root", tree |-> "preprocessed",
                    root |-> stwoProof.obj.stark_proof.commitments[1]]
             /\ last.channel_ops[2] =
                   [op |-> "mix_root", tree |-> "trace",
                    root |-> stwoProof.obj.stark_proof.commitments[2]]
             /\ \A i \in Draws(last.channel_ops) : i > 2
             /\ ChannelAtFirstDraw(Blake2sM31Channel_default, last.channel_ops)
                  = ChannelAtFirstDraw(
                        Blake2sM31Channel_default,
                        ProverChannelOps(PcsConfig_default, stwoProof.obj.a,
                                         stwoProof.obj.b))

\* a proof of prove_equality was verified
C19_Witness ==
    /\ last.op = "stwo_verify_equality"
    /\ stwoProof.origin = "honest"
    /\ last.outcome = Ok(TRUE)
    /\ Draws(last.channel_ops) = { 3 }

\* the calls that take a wrapper or a verifier by shared reference
IsSharedCall(op) ==
    op \in {"wrap", "snark_verify", "snark_verify_with_result",
            "marlin_snark_verify", "verify_distributed", "json_round_trip"}

\* the verifier a fresh setup with the seed of key k would give
FreshVerifier(k) ==
    SnarkVerifier_new(SnarkWrapper_new(keys[k].verifying_key.id).verifying_key)

WrapSynthesized ==
    /\ last.op = "wrap"
    /\ \E i \in 1..Len(last.steps) : last.steps[i] = "groth16_prove"

\* the constraint system wrap synthesized for its inner proof
WrapConstraints ==
    generate_constraints(
        StarkVerifierCircuit_new(hash_stark_proof(last.inner), last.inner.a,
                                 last.inner.b), FALSE)

\* C21: the wrapping circuit is satisfied by every assignment in which
\* a == b, the public input equals a and the hash witness comes from a
\* nonzero proof hash.
C21_SatisfiedForNonzeroHash ==
    (/\ WrapSynthesized
     /\ last.inner.a = last.inner.b
     /\ \E i \in 1..Len(hash_stark_proof(last.inner)) :
           hash_stark_proof(last.inner)[i] # 0)
        => /\ WrapConstraints.ok
           /\ WrapConstraints.public = SomeValue(last.inner.a)
           /\ WrapConstraints.satisfied

(***************************************************************************)
(* The wrapping circuit on its own: generate_constraints applied to every  *)
(* value a StarkVerifierCircuit can hold.                                  *)
(***************************************************************************)
\* the values of the Option fields of a StarkVerifierCircuit
OptionOf(S) == { NoneValue } \cup { SomeValue(x) : x \in S }

Circuits ==
    [proof_hash : OptionOf({ << 0, 12 >>, << 5, 15 >>, << 0, 0 >> }),
     verified_a : OptionOf(ClaimValues),
     verified_b : OptionOf(ClaimValues)]

\* ConstraintSynthesizer::generate_constraints on a circuit, in the setup
\* mode of Groth16::setup or the proving mode of Groth16::prove
InnerProofs ==
    [proof_bytes : { << >>, << 0 >>, << 42 >>, << 0, 0, 0, 0 >>, << 42, 0, 0, 0 >> },
     a : { U32(0), U32(42) },
     b : { U32(0), U32(42) },
     num_rows : { USize(DEFAULT_NUM_ROWS), USize(16) }]

Synthesize ==
    /\ \E circuit \in Circuits, setup_mode \in BOOLEAN :
         last' = [op |-> "synthesize", circuit |-> circuit,
                  setup_mode |-> setup_mode,
                  cs |-> generate_constraints(circuit, setup_mode)]
    /\ UNCHANGED <<proof, stwoProof, keys, wrapped, rng>>

\* hash_stark_proof applied to an inner proof, which need not be valid; the
\* call before it is kept for comparison
HashStarkProof ==
    /\ \E x \in InnerProofs :
         last' = [op |-> "hash_stark_proof", x |-> x,
                  updates |-> hash_updates(x), hash |-> hash_stark_proof(x),
                  prev |-> IF last.op = "hash_stark_proof"
                           THEN SomeValue([x |-> last.x, updates |-> last.updates,
                                           hash |-> last.hash])
                           ELSE NoneValue]
    /\ UNCHANGED <<proof, stwoProof, keys, wrapped, rng>>

SpecCircuit == Init /\ [][Synthesize \/ HashStarkProof]_vars

GenerateTrace ==
    /\ \E num_rows \in { 1, 2, 4, NUM_ROWS }, a \in ClaimValues, b \in ClaimValues :
         last' = [op |-> "generate_trace", num_rows |-> num_rows,
                  a |-> a, b |-> b, out |-> generate_trace(num_rows, a, b)]
    /\ UNCHANGED <<proof, stwoProof, keys, wrapped, rng>>

StwoGenerateTrace ==
    /\ \E log_size \in { LOG_N_LANES - 1, LOG_N_LANES, LOG_N_ROWS },
          a \in ClaimValues, b \in ClaimValues :
         last' = [op |-> "stwo_generate_trace", log_size |-> log_size,
                  a |-> a, b |-> b,
                  out |-> stwo_generate_trace(log_size, a, b)]
    /\ UNCHANGED <<proof, stwoProof, keys, wrapped, rng>>

\* C23: the trace built for claim (a, b) has exactly 2 columns and exactly
\* the requested number of rows, and every row holds (a, b): column 0 is a
\* and column 1 is b on each row, none left at a default value (both
\* backends).
C23_TraceHoldsClaim ==
    /\ (last.op = "generate_trace" /\ last.out.tag = "Ok")
          => LET t == last.out.val
             IN  /\ t.width = 2
                 /\ Len(t.values) = 2 * last.num_rows
                 /\ TraceHeight(t) = last.num_rows
                 /\ \A r \in 1..last.num_rows :
                       TraceRow(t, r) = << Value(last.a), Value(last.b) >>
    /\ (last.op = "stwo_generate_trace" /\ last.out.tag = "Ok")
          => LET cols == last.out.val
             IN  /\ Len(cols) = 2
                 /\ Len(cols[1]) = Pow2(last.log_size)
                 /\ Len(cols[2]) = Pow2(last.log_size)
                 /\ \A r \in 1..Pow2(last.log_size) :
                       cols[1][r] = last.a /\ cols[2][r] = last.b

C23_Witness ==
    /\ last.op = "generate_trace"
    /\ last.out.tag = "Ok"
    /\ last.num_rows = NUM_ROWS
    /\ last.a # last.b
    /\ Value(last.a) # 0
    /\ Value(last.b) # 0

\* traces of one or two rows over a few field elements; M31_P is the
\* non-canonical zero new_checked stores for 2^31 - 1
CheckAir ==
    /\ \E h \in { 1, 2 } :
       \E v \in [1..(AirWidth * h) -> { 0, 15, 42, M31_P }] :
         LET t == [width |-> AirWidth, values |-> v]
         IN
         last' = [op |-> "check_air", width |-> AirWidth, trace |-> t,
                  evals |-> [r \in 1..TraceHeight(t) |-> AirEval(TraceRow(t, r))],
                  satisfied |-> SatisfiesAir(t)]
    /\ UNCHANGED <<proof, stwoProof, keys, wrapped, rng>>

StwoEvaluate ==
    /\ \E a \in { 0, 15, 42 }, b \in { 0, 15, 42 } :
         last' = [op |-> "stwo_evaluate", a |-> U32(a), b |-> U32(b),
                  holds |-> EqualityEval_evaluate(U32(a), U32(b))]
    /\ UNCHANGED <<proof, stwoProof, keys, wrapped, rng>>

SpecTrace ==
    Init /\ [][GenerateTrace \/ StwoGenerateTrace \/ CheckAir \/ StwoEvaluate]_vars

\* C24: the AIR has width 2 and a single constraint, column0 - column1 == 0,
\* evaluated on the current row only; a trace satisfies the AIR exactly when
\* every row has equal entries in its two columns (equal as field elements).
C24_AirIsRowEquality ==
    /\ last.op = "check_air"
          => /\ last.width = 2
             /\ \A r \in 1..TraceHeight(last.trace) :
                   last.evals[r] = 0
                      <=> Canonical(TraceRow(last.trace, r)[1])
                             = Canonical(TraceRow(last.trace, r)[2])
             /\ last.satisfied
                   <=> \A r \in 1..TraceHeight(last.trace) :
                          Canonical(TraceRow(last.trace, r)[1])
                             = Canonical(TraceRow(last.trace, r)[2])
    /\ last.op = "stwo_evaluate" => (last.holds <=> last.a = last.b)

C24_Witness ==
    /\ last.op = "check_air"
    /\ TraceHeight(last.trace) = 2
    /\ TraceRow(last.trace, 1)[1] = TraceRow(last.trace, 1)[2]
    /\ TraceRow(last.trace, 2)[1] # TraceRow(last.trace, 2)[2]
    /\ ~last.satisfied

(***************************************************************************)
(* The verifier facade: both verifiers side by side.                       *)
(***************************************************************************)
SpecFacade ==
    Init /\ [][ProveEquality \/ Forge \/ Redeclare \/ Setup \/ Wrap
                 \/ NativeVerifyWithResult \/ SnarkVerifyWithResult]_vars

\* C25: method() is constant per backend (NativeStarkVerifier reports
\* NativeStark, SnarkVerifier reports StarkInSnark, whatever the verifier
\* holds), and every VerificationResult a verify_with_result returns carries
\* the method of the verifier that made it.
C25_MethodConstant ==
    /\ last.op = "native_verify_with_result"
          => /\ NativeStarkVerifier_method(last.self) = "NativeStark"
             /\ last.outcome.tag = "Ok"
                   => last.outcome.val.method
                         = NativeStarkVerifier_method(last.self)
    /\ last.op = "snark_verify_with_result"
          => LET self == SnarkVerifier_new(keys[last.key].verifying_key)
             IN  /\ SnarkVerifier_method(self) = "StarkInSnark"
                 /\ last.outcome.tag = "Ok"
                       => last.outcome.val.method = SnarkVerifier_method(self)

C25_Witness ==
    /\ last.op = "snark_verify_with_result"
    /\ last.outcome.tag = "Ok"
    /\ last.outcome.val.method = "StarkInSnark"
    /\ proof.tag = "Some"

\* C26: NativeStarkVerifier::verify performs its checks in a fixed order
\* (a == b, then proof.num_rows == verifier.num_rows, then the decoding of
\* proof_bytes, then the STARK check) and returns at the first failing one;
\* a proof with a != b is rejected without its bytes being decoded.
C26_ChecksInOrder ==
    last.op = "native_verify"
       => LET pr == proof.obj
              decoded == \E i \in 1..Len(last.steps) : last.steps[i] = "deserialize"
              checked == \E i \in 1..Len(last.steps) : last.steps[i] = "stark_verify"
          IN  /\ last.outcome.tag \in { "Ok", "Err" }
              /\ pr.a # pr.b
                    => /\ last.outcome.tag = "Err"
                       /\ last.outcome.msg = "Proof values are not equal"
                       /\ ~decoded /\ ~checked
              /\ (pr.a = pr.b /\ pr.num_rows # last.self.num_rows)
                    => /\ last.outcome.tag = "Err"
                       /\ last.outcome.msg = "Proof trace size mismatch"
                       /\ ~decoded /\ ~checked
              /\ (pr.a = pr.b /\ pr.num_rows = last.self.num_rows
                    /\ ~Deserialize(pr.proof_bytes).ok)
                    => /\ last.outcome.tag = "Err"
                       /\ last.outcome.msg = "Failed to deserialize STARK proof"
                       /\ decoded /\ ~checked
              /\ (pr.a = pr.b /\ pr.num_rows = last.self.num_rows
                    /\ Deserialize(pr.proof_bytes).ok)
                    => decoded /\ checked

\* C27: hash_stark_proof is a deterministic function of (proof_bytes, a, b,
\* num_rows), and the byte string it hashes, proof_bytes followed by a, b
\* and num_rows in little-endian, is an injective encoding of that tuple:
\* the four fields can be read back from it, so two inner proofs that differ
\* in any field are hashed over different byte strings.
C27_HashInputInjective ==
    last.op = "hash_stark_proof"
       => LET n == Len(last.updates)
          IN  /\ n = Len(last.x.proof_bytes) + 16
              /\ SubSeq(last.updates, 1, n - 16) = last.x.proof_bytes
              /\ SubSeq(last.updates, n - 15, n - 12) = last.x.a
              /\ SubSeq(last.updates, n - 11, n - 8) = last.x.b
              /\ SubSeq(last.updates, n - 7, n) = last.x.num_rows
              /\ last.hash = Sha256(last.updates)
              /\ last.prev.some
                    => /\ last.x # last.prev.val.x
                             => last.updates # last.prev.val.updates
                       /\ last.x = last.prev.val.x
                             => last.hash = last.prev.val.hash

C27_Witness ==
    /\ last.op = "hash_stark_proof"
    /\ last.prev.some
    /\ last.x.proof_bytes = last.prev.val.x.proof_bytes
    /\ last.x.a = last.prev.val.x.a
    /\ last.x.b = last.prev.val.x.b
    /\ last.x.num_rows # last.prev.val.x.num_rows
    /\ last.updates # last.prev.val.updates

\* C28: the wrapping circuit has one topology: the constraint system
\* synthesized from StarkVerifierCircuit::empty() at setup has as many public
\* inputs, witness variables and constraints as the one synthesized from
\* StarkVerifierCircuit::new(hash, a, b) at proving time, so the keys of
\* SnarkWrapper::new match the circuit wrap proves.
C28_OneTopology ==
    WrapSynthesized
       => /\ Topology(WrapConstraints)
                = Topology(generate_constraints(StarkVerifierCircuit_empty, TRUE))
          /\ Topology(WrapConstraints) = keys[last.key].proving_key.topology
          /\ Topology(WrapConstraints) = keys[last.key].verifying_key.topology

\* C29: SnarkWrapper::wrap succeeds only for an inner proof whose declared
\* num_rows is the trace height the proof was generated with (NUM_ROWS); an
\* inner proof carrying any other num_rows is rejected by the Layer-1 check
\* embedded in wrap.
C29_WrapChecksNumRows ==
    last.op = "wrap"
       => /\ last.outcome.tag = "Ok" => last.inner.num_rows = USize(NUM_ROWS)
          /\ last.inner.num_rows # USize(NUM_ROWS)
                => /\ last.outcome.tag = "Err"
                   /\ last.steps = << "native_verify" >>

\* C30: every WrappedProof returned by SnarkWrapper::wrap has
\* inner_stark_proof equal to the input proof, inner_stark_proof.a equal to
\* inner_stark_proof.b, and public_inputs equal to the one-element list
\* holding the decimal string of a, which SnarkVerifier::verify parses back
\* to the same u32 value a.
C30_WrappedProofShape ==
    (last.op = "wrap" /\ last.outcome.tag = "Ok")
       => LET wp == last.outcome.val
          IN  /\ wp.inner_stark_proof = last.inner
              /\ wp.inner_stark_proof.a = wp.inner_stark_proof.b
              /\ wp.public_inputs = << to_string(wp.inner_stark_proof.a) >>
              /\ ParseInputs(wp.public_inputs)
                    = [ok |-> TRUE, val |-> << wp.inner_stark_proof.a >>]
              /\ wrapped.obj = wp

C30_Witness ==
    /\ last.op = "wrap"
    /\ last.outcome.tag = "Ok"
    /\ last.inner.a = U32(M31_P)
    /\ Len(last.outcome.val.public_inputs[1]) = 10

====
